---- MODULE Spec2Model ----
(***************************************************************************)
(* Model of the real-time relay of the music platform                      *)
(* (spotify_backend/socketManager.js): the connection registry             *)
(* connectedUsers, the connect and disconnect flows, the privateMessage,   *)
(* typing and updateCurrentlyPlaying handlers, the persisted User and      *)
(* ChatMessage documents they read and write, and the events each socket   *)
(* receives; and of the friend-request routes (routes/friends.js) that     *)
(* write the friends lists the relay fans out over.                        *)
(*                                                                         *)
(* Every await of a handler is a suspension point: the handler's code up   *)
(* to the await is one action, and each resumption is another action whose *)
(* input is the outcome of the awaited database call (resolved or          *)
(* rejected).  Handlers of all sockets interleave freely at these points.  *)
(***************************************************************************)
EXTENDS Integers, Sequences, FiniteSets, TLC

\* ------------------------------------------------------------------ bounds
MaxConn == 2      \* sockets accepted by the server in one run
MaxEvents == 2    \* client events (privateMessage, updateCurrentlyPlaying) handled
MaxTime == 1      \* the clock runs over 0..MaxTime
MaxCalls == 3     \* calls of the friend routes handled in one run

\* ------------------------------------------------------------- value sets
Users == {"u1", "u2", "u3"}
Conns == 1..MaxConn
Contents == {"hi"}
ExistingSongs == {"s1"}
SongIds == {"s1", "s9"}       \* "s9" is the id of no Song document
Undefined == 0                \* Map.get of an absent key; socket ids are 1..MaxConn
NoSong == "none"
SongArtist == "u1"            \* Song.artist of the song in the collection
Missing == "undefined"        \* a field the client's payload does not carry

\* Friend lists the accept route can leave in User.friends: $addToSet keeps
\* each list duplicate-free.
StarGraph == [u \in Users |-> IF u = "u1" THEN {"u2", "u3"} ELSE {"u1"}]

PairGraph == [u \in Users |-> CASE u = "u1" -> {"u2"}
                                [] u = "u2" -> {"u1"}
                                [] OTHER    -> {}]

FriendGraphs == {StarGraph, PairGraph}

\* Nobody has accepted a friend request yet.
NoFriends == [u \in Users |-> {}]

\* The values of :requestId a client can put in the URL: the ids of the
\* records that can exist.
RequestIds == 1..MaxCalls

VARIABLES
    friends,         \* User.friends of every user document
    dbUser,          \* User.isOnline, lastSeen, currentlyPlaying of every user
    messages,        \* the ChatMessage collection, in the order of the inserts
    connectedUsers,  \* the Map userId -> socket.id, as its set of entries
    nextConn,        \* sockets accepted so far; their ids are 1..nextConn
    conn,            \* per socket: its user, whether it is open, its two flows
    handlers,        \* event-handler invocations, in the order they started
    inbox,           \* per socket: the events delivered to the client
    now,             \* the clock read by new Date()
    running,         \* FALSE once an uncaught exception has ended the process
    requests,        \* the FriendRequest collection, in the order of the inserts
    calls,           \* invocations of the HTTP routes, in the order they started
    songs,           \* the Song collection: song id -> Song.artist
    likedSongs       \* User.likedSongs of every user document

vars == <<friends, dbUser, messages, connectedUsers, nextConn, conn, handlers,
          inbox, now, running, requests, calls, songs, likedSongs>>

\* The state the song routes read and write.
library == <<songs, likedSongs>>

\* ------------------------------------------------------ the Map operations
MapHas(m, k) == \E p \in m : p[1] = k

MapGet(m, k) == IF MapHas(m, k) THEN (CHOOSE p \in m : p[1] = k)[2] ELSE Undefined

\* Mutant of MapSet: the entry is added without replacing the key's entry.
MapSetKeepsOld(m, k, v) == m \cup {<<k, v>>}

MapSet(m, k, v) == {p \in m : p[1] # k} \cup {<<k, v>>}

\* Mutant of MapDelete: deleting an absent key leaves a marker entry behind.
MapDeleteMarksAbsent(m, k) ==
    IF MapHas(m, k) THEN {p \in m : p[1] # k} ELSE m \cup {<<k, Undefined>>}

MapDelete(m, k) == {p \in m : p[1] # k}

\* ------------------------------------------------------------ event shapes
FriendOnline(u) == [ev |-> "friendOnline", userId |-> u]

\* Mutant of FriendOffline: the event carries the epoch, not new Date().
FriendOfflineEpoch(u, t) == [ev |-> "friendOffline", userId |-> u, lastSeen |-> 0]

FriendOffline(u, t) == [ev |-> "friendOffline", userId |-> u, lastSeen |-> t]

FriendCurrentlyPlaying(u, s, t) ==
    [ev |-> "friendCurrentlyPlaying", userId |-> u, songId |-> s, timestamp |-> t]

NewMessage(m) == [ev |-> "newMessage", message |-> m]

MessageSent(m) == [ev |-> "messageSent", message |-> m]

MessageError == [ev |-> "messageError", error |-> "Failed to send message"]

UserTyping(u) == [ev |-> "userTyping", userId |-> u]

\* The document ChatMessage.create resolves to.
ChatMessageCreate(id, sender, receiver, content, t) ==
    [id |-> id, sender |-> sender, receiver |-> receiver, content |-> content,
     createdAt |-> t]

\* --------------------------------------------------------------- delivery
\* socket.emit / io.to(id).emit: a socket that has closed has left its room
\* and its transport ignores writes, so the event reaches nobody.
Emit(box, target, e) ==
    IF target \in Conns /\ conn[target].open
    THEN [box EXCEPT ![target] = Append(@, e)]
    ELSE box

\* Mutant of FriendSockets: the loop runs over every registered user.
EveryRegisteredSocket(u) == {p[2] : p \in connectedUsers}

\* The socket ids the forEach over user.friends emits to.
FriendSockets(u) ==
    {MapGet(connectedUsers, f) : f \in {g \in friends[u] : MapGet(connectedUsers, g) # Undefined}}

\* user.friends.forEach(friendId => { ... io.to(friendSocketId).emit(ev) })
NotifyFriends(box, u, e) ==
    [c \in Conns |-> IF c \in FriendSockets(u) /\ conn[c].open
                     THEN Append(box[c], e)
                     ELSE box[c]]

\* ------------------------------------------------------------------- Init
IdleConn == [user |-> "none", open |-> FALSE, cpc |-> "idle", dpc |-> "none",
             connTime |-> 0, discTime |-> 0]

\* The server has started and no client has called it yet.
InitState ==
    /\ dbUser = [u \in Users |-> [isOnline |-> FALSE, lastSeen |-> 0,
                                  song |-> NoSong, songTs |-> 0]]
    /\ messages = <<>>
    /\ connectedUsers = {}
    /\ nextConn = 0
    /\ conn = [c \in Conns |-> IdleConn]
    /\ handlers = <<>>
    /\ inbox = [c \in Conns |-> <<>>]
    /\ now = 0
    /\ running = TRUE
    /\ requests = <<>>
    /\ calls = <<>>
    /\ songs = [s \in ExistingSongs |-> SongArtist]
    /\ likedSongs = [u \in Users |-> <<>>]

Init == friends \in FriendGraphs /\ InitState

\* --------------------------------------------------------------- the clock
Tick ==
    /\ now < MaxTime
    /\ now' = now + 1
    /\ UNCHANGED <<library, running, requests, calls, friends, dbUser, messages, connectedUsers, nextConn, conn,
                   handlers, inbox>>

\* ----------------------------------------------------------- connect flow
\* Every listener runs in the server process: once the process has ended
\* (running = FALSE) no socket is accepted and no listener or continuation runs.
\* io.on("connection"): lines 40-49 up to the first await.
Connect(u) ==
    /\ running
    /\ nextConn < MaxConn
    /\ LET c == nextConn + 1 IN
        /\ nextConn' = c
        /\ connectedUsers' = MapSet(connectedUsers, u, c)
        /\ conn' = [conn EXCEPT ![c] = [user |-> u, open |-> TRUE, cpc |-> "update",
                                        dpc |-> "none", connTime |-> now,
                                        discTime |-> 0]]
    /\ UNCHANGED <<library, running, requests, calls, friends, dbUser, messages, handlers, inbox, now>>

\* The await of User.findByIdAndUpdate(userId, {isOnline: true, lastSeen})
\* settles.  A rejection leaves the async listener with a rejected promise:
\* nothing after line 46 runs.
ConnUpdate(c, ok) ==
    /\ running
    /\ conn[c].cpc = "update"
    /\ IF ok
       THEN /\ dbUser' = [dbUser EXCEPT ![conn[c].user].isOnline = TRUE,
                                        ![conn[c].user].lastSeen = conn[c].connTime]
            /\ conn' = [conn EXCEPT ![c].cpc = "find"]
       ELSE /\ conn' = [conn EXCEPT ![c].cpc = "failed"]
            /\ UNCHANGED dbUser
    /\ UNCHANGED <<library, running, requests, calls, friends, messages, connectedUsers, nextConn, handlers, inbox, now>>

\* Mutant of ConnFind: the flow also pushes the oldest stored message
\* addressed to the user.
ConnFindReplays(c, ok) ==
    /\ running
    /\ conn[c].cpc = "find"
    /\ IF ok
       THEN /\ LET stored == {i \in DOMAIN messages : messages[i].receiver = conn[c].user}
                   box == NotifyFriends(inbox, conn[c].user, FriendOnline(conn[c].user))
               IN inbox' = IF stored = {} THEN box
                           ELSE Emit(box, c, NewMessage(messages[
                                    CHOOSE i \in stored : \A j \in stored : i <= j]))
            /\ conn' = [conn EXCEPT ![c].cpc = "on"]
       ELSE /\ conn' = [conn EXCEPT ![c].cpc = "failed"]
            /\ UNCHANGED inbox
    /\ UNCHANGED <<library, running, requests, calls, friends, dbUser, messages, connectedUsers, nextConn, handlers, now>>

\* The await of User.findById(userId) settles: the friendOnline loop runs and
\* the socket's listeners (lines 63-153) are installed.  The read of
\* user.friends and the loop are one step: no action of this module writes
\* User.friends between them.
ConnFind(c, ok) ==
    /\ running
    /\ conn[c].cpc = "find"
    /\ IF ok
       THEN /\ inbox' = NotifyFriends(inbox, conn[c].user, FriendOnline(conn[c].user))
            /\ conn' = [conn EXCEPT ![c].cpc = "on"]
       ELSE /\ conn' = [conn EXCEPT ![c].cpc = "failed"]
            /\ UNCHANGED inbox
    /\ UNCHANGED <<library, running, requests, calls, friends, dbUser, messages, connectedUsers, nextConn, handlers, now>>

\* -------------------------------------------------------- disconnect flow
\* The socket closes.  socket.on("disconnect") exists only once the connect
\* flow has reached line 131; the event of a socket that closes earlier has
\* no listener.  With the listener: lines 132-138 up to the first await.
Close(c) ==
    /\ running
    /\ conn[c].open
    /\ IF conn[c].cpc = "on"
       THEN /\ connectedUsers' = MapDelete(connectedUsers, conn[c].user)
            /\ conn' = [conn EXCEPT ![c].open = FALSE, ![c].dpc = "update",
                                    ![c].discTime = now]
       ELSE /\ conn' = [conn EXCEPT ![c].open = FALSE]
            /\ UNCHANGED connectedUsers
    /\ UNCHANGED <<library, running, requests, calls, friends, dbUser, messages, nextConn, handlers, inbox, now>>

\* The await of User.findByIdAndUpdate(userId, {isOnline: false, lastSeen})
\* settles.
DiscUpdate(c, ok) ==
    /\ running
    /\ conn[c].dpc = "update"
    /\ IF ok
       THEN /\ dbUser' = [dbUser EXCEPT ![conn[c].user].isOnline = FALSE,
                                        ![conn[c].user].lastSeen = conn[c].discTime]
            /\ conn' = [conn EXCEPT ![c].dpc = "find"]
       ELSE /\ conn' = [conn EXCEPT ![c].dpc = "failed"]
            /\ UNCHANGED dbUser
    /\ UNCHANGED <<library, running, requests, calls, friends, messages, connectedUsers, nextConn, handlers, inbox, now>>

\* The await of User.findById(userId) settles: the friendOffline loop runs,
\* each event carrying its own new Date().
DiscFind(c, ok) ==
    /\ running
    /\ conn[c].dpc = "find"
    /\ IF ok
       THEN /\ inbox' = NotifyFriends(inbox, conn[c].user,
                                      FriendOffline(conn[c].user, now))
            /\ conn' = [conn EXCEPT ![c].dpc = "done"]
       ELSE /\ conn' = [conn EXCEPT ![c].dpc = "failed"]
            /\ UNCHANGED inbox
    /\ UNCHANGED <<library, running, requests, calls, friends, dbUser, messages, connectedUsers, nextConn, handlers, now>>

\* ---------------------------------------------------------- privateMessage
\* A client event reaches a listener only on an open socket whose listeners
\* are installed.
Listening(c) == conn[c].open /\ conn[c].cpc = "on"

Handler(kind, c, pc, rcv, content, song, ts) ==
    [kind |-> kind, conn |-> c, pc |-> pc, rcv |-> rcv, content |-> content,
     song |-> song, ts |-> ts]

\* A handler that has returned: its locals are gone.
Returned == Handler("done", 0, "done", "none", "none", NoSong, 0)

\* A handler that returned through its catch block, leaving console.error's line.
Caught == Handler("done", 0, "caught", "none", "none", NoSong, 0)

\* The record the handler h holds in `message` once ChatMessage.create resolved.
MessageOf(h) == messages[CHOOSE i \in DOMAIN messages : messages[i].id = h]

\* socket.on("privateMessage"): lines 64-72 up to the await of create.
PrivateMessage(c, receiverId, content) ==
    /\ running
    /\ Listening(c)
    /\ Len(handlers) < MaxEvents
    /\ handlers' = Append(handlers,
                          Handler("pm", c, "create", receiverId, content, NoSong, 0))
    /\ UNCHANGED <<library, running, requests, calls, friends, dbUser, messages, connectedUsers, nextConn, conn, inbox, now>>

\* Mutant of PMCreate: the catch block reports the failure with io.emit.
PMCreateBroadcastsError(h, ok) ==
    /\ running
    /\ handlers[h].kind = "pm" /\ handlers[h].pc = "create"
    /\ IF ok
       THEN /\ messages' = Append(messages,
                                  ChatMessageCreate(h, conn[handlers[h].conn].user,
                                                    handlers[h].rcv, handlers[h].content, now))
            /\ handlers' = [handlers EXCEPT ![h].pc = "populate"]
            /\ UNCHANGED inbox
       ELSE /\ inbox' = [d \in Conns |-> IF conn[d].open THEN Append(inbox[d], MessageError)
                                                        ELSE inbox[d]]
            /\ handlers' = [handlers EXCEPT ![h] = Caught]
            /\ UNCHANGED messages
    /\ UNCHANGED <<library, running, requests, calls, friends, dbUser, connectedUsers, nextConn, conn, now>>

\* The await of ChatMessage.create settles: the record is inserted, or the
\* rejection is caught at line 85.
PMCreate(h, ok) ==
    /\ running
    /\ handlers[h].kind = "pm" /\ handlers[h].pc = "create"
    /\ IF ok
       THEN /\ messages' = Append(messages,
                                  ChatMessageCreate(h, conn[handlers[h].conn].user,
                                                    handlers[h].rcv, handlers[h].content, now))
            /\ handlers' = [handlers EXCEPT ![h].pc = "populate"]
            /\ UNCHANGED inbox
       ELSE /\ inbox' = Emit(inbox, handlers[h].conn, MessageError)
            /\ handlers' = [handlers EXCEPT ![h] = Caught]
            /\ UNCHANGED messages
    /\ UNCHANGED <<library, running, requests, calls, friends, dbUser, connectedUsers, nextConn, conn, now>>

\* Mutant of Deliver: the receiver is sent a copy of the record stamped anew.
DeliverRestamped(box, h) ==
    LET receiverSocketId == MapGet(connectedUsers, handlers[h].rcv)
        toReceiver == IF receiverSocketId # Undefined
                      THEN Emit(box, receiverSocketId,
                                NewMessage([MessageOf(h) EXCEPT !.createdAt = @ + 1]))
                      ELSE box
    IN Emit(toReceiver, handlers[h].conn, MessageSent(MessageOf(h)))

\* Mutant of Deliver: the handler returns early when the receiver is offline.
DeliverOnlineOnly(box, h) ==
    LET receiverSocketId == MapGet(connectedUsers, handlers[h].rcv)
    IN IF receiverSocketId # Undefined
       THEN Emit(Emit(box, receiverSocketId, NewMessage(MessageOf(h))),
                 handlers[h].conn, MessageSent(MessageOf(h)))
       ELSE box

\* Lines 78-84: newMessage to the receiver's registered socket, then
\* messageSent to the sender.
Deliver(box, h) ==
    LET receiverSocketId == MapGet(connectedUsers, handlers[h].rcv)
        toReceiver == IF receiverSocketId # Undefined
                      THEN Emit(box, receiverSocketId, NewMessage(MessageOf(h)))
                      ELSE box
    IN Emit(toReceiver, handlers[h].conn, MessageSent(MessageOf(h)))

\* The await of message.populate("sender", ...) settles: delivery, or the
\* rejection is caught at line 85.
PMPopulate(h, ok) ==
    /\ running
    /\ handlers[h].kind = "pm" /\ handlers[h].pc = "populate"
    /\ inbox' = IF ok THEN Deliver(inbox, h)
                      ELSE Emit(inbox, handlers[h].conn, MessageError)
    /\ handlers' = [handlers EXCEPT ![h] = IF ok THEN Returned ELSE Caught]
    /\ UNCHANGED <<library, running, requests, calls, friends, dbUser, messages, connectedUsers, nextConn, conn, now>>

\* -------------------------------------------------- updateCurrentlyPlaying
\* socket.on("updateCurrentlyPlaying"): lines 102-109 up to the first await.
UpdateCurrentlyPlaying(c, songId) ==
    /\ running
    /\ Listening(c)
    /\ Len(handlers) < MaxEvents
    /\ handlers' = Append(handlers,
                          Handler("ucp", c, "update", "none", "none", songId, now))
    /\ UNCHANGED <<library, running, requests, calls, friends, dbUser, messages, connectedUsers, nextConn, conn, inbox, now>>

\* Mutant of UCPUpdate: the song is looked up and an unknown id is not stored.
UCPUpdateValidates(h, ok) ==
    /\ running
    /\ handlers[h].kind = "ucp" /\ handlers[h].pc = "update"
    /\ IF ok
       THEN /\ dbUser' = IF handlers[h].song \in ExistingSongs
                         THEN [dbUser EXCEPT ![conn[handlers[h].conn].user].song = handlers[h].song,
                                             ![conn[handlers[h].conn].user].songTs = handlers[h].ts]
                         ELSE dbUser
            /\ handlers' = [handlers EXCEPT ![h].pc = "find"]
       ELSE /\ handlers' = [handlers EXCEPT ![h] = Caught]
            /\ UNCHANGED dbUser
    /\ UNCHANGED <<library, running, requests, calls, friends, messages, connectedUsers, nextConn, conn, inbox, now>>

\* The await of User.findByIdAndUpdate(userId, {currentlyPlaying}) settles;
\* a rejection is caught at line 125 and only logged.
UCPUpdate(h, ok) ==
    /\ running
    /\ handlers[h].kind = "ucp" /\ handlers[h].pc = "update"
    /\ IF ok
       THEN /\ dbUser' = [dbUser EXCEPT ![conn[handlers[h].conn].user].song = handlers[h].song,
                                        ![conn[handlers[h].conn].user].songTs = handlers[h].ts]
            /\ handlers' = [handlers EXCEPT ![h].pc = "find"]
       ELSE /\ handlers' = [handlers EXCEPT ![h] = Caught]
            /\ UNCHANGED dbUser
    /\ UNCHANGED <<library, running, requests, calls, friends, messages, connectedUsers, nextConn, conn, inbox, now>>

\* The await of User.findById(userId) settles: the friendCurrentlyPlaying loop.
UCPFind(h, ok) ==
    /\ running
    /\ handlers[h].kind = "ucp" /\ handlers[h].pc = "find"
    /\ inbox' = IF ok
                THEN NotifyFriends(inbox, conn[handlers[h].conn].user,
                                   FriendCurrentlyPlaying(conn[handlers[h].conn].user,
                                                          handlers[h].song, now))
                ELSE inbox
    /\ handlers' = [handlers EXCEPT ![h] = IF ok THEN Returned ELSE Caught]
    /\ UNCHANGED <<library, running, requests, calls, friends, dbUser, messages, connectedUsers, nextConn, conn, now>>

\* ------------------------------------------------------------------ typing
\* What a client can send with a typing event: no argument at all, an object
\* without receiverId, or an object naming a receiver.
TypingPayloads ==
    {[absent |-> TRUE, receiverId |-> Missing]}
        \cup {[absent |-> FALSE, receiverId |-> r] : r \in Users \cup {Missing}}

\* An exception no try block catches reaches the event loop: the process
\* ends, and with it the registry and every socket.  Handlers suspended on an
\* await are never resumed.
UncaughtException(c, h) ==
    /\ running' = FALSE
    /\ connectedUsers' = {}
    /\ conn' = [d \in Conns |-> [conn[d] EXCEPT !.open = FALSE]]
    /\ handlers' = Append(handlers, h)
    /\ UNCHANGED inbox

\* Mutant of Typing: the sender is sent the indicator as an acknowledgment.
TypingAcknowledged(c, data) ==
    /\ running
    /\ Listening(c)
    /\ Len(handlers) < MaxEvents
    /\ ~data.absent
    /\ LET receiverSocketId == MapGet(connectedUsers, data.receiverId)
           toReceiver == IF receiverSocketId # Undefined
                         THEN Emit(inbox, receiverSocketId, UserTyping(conn[c].user))
                         ELSE inbox
       IN /\ inbox' = Emit(toReceiver, c, UserTyping(conn[c].user))
          /\ handlers' = Append(handlers, Handler("typing", c, "done",
                                                  data.receiverId, "none", NoSong, 0))
          /\ UNCHANGED <<connectedUsers, conn, running>>
    /\ UNCHANGED <<library, requests, calls, friends, dbUser, messages, nextConn, now>>

\* socket.on("typing"), lines 92-98: a synchronous listener without a try
\* block.  Destructuring an absent payload at line 93 throws.
Typing(c, data) ==
    /\ running
    /\ Listening(c)
    /\ Len(handlers) < MaxEvents
    /\ IF data.absent
       THEN UncaughtException(c, Handler("typing", c, "thrown", Missing, "none",
                                         NoSong, 0))
       ELSE LET receiverSocketId == MapGet(connectedUsers, data.receiverId)
            IN /\ inbox' = IF receiverSocketId # Undefined
                           THEN Emit(inbox, receiverSocketId, UserTyping(conn[c].user))
                           ELSE inbox
               /\ handlers' = Append(handlers, Handler("typing", c, "done",
                                                       data.receiverId, "none", NoSong, 0))
               /\ UNCHANGED <<connectedUsers, conn, running>>
    /\ UNCHANGED <<library, requests, calls, friends, dbUser, messages, nextConn, now>>

\* ------------------------------------------------------- absent payloads
\* privateMessage without an argument: line 65 throws inside the try block
\* and the catch at line 85 answers the sender.
PrivateMessageAbsent(c) ==
    /\ running
    /\ Listening(c)
    /\ Len(handlers) < MaxEvents
    /\ inbox' = Emit(inbox, c, MessageError)
    /\ handlers' = Append(handlers, Handler("pm", c, "caught", Missing, Missing,
                                            NoSong, 0))
    /\ UNCHANGED <<library, running, requests, calls, friends, dbUser, messages,
                   connectedUsers, nextConn, conn, now>>

\* updateCurrentlyPlaying without an argument: line 103 throws inside the try
\* block and the catch at line 125 logs the error.
UpdateCurrentlyPlayingAbsent(c) ==
    /\ running
    /\ Listening(c)
    /\ Len(handlers) < MaxEvents
    /\ handlers' = Append(handlers, Handler("ucp", c, "caught", "none", "none",
                                            Missing, 0))
    /\ UNCHANGED <<library, running, requests, calls, friends, dbUser, messages,
                   connectedUsers, nextConn, conn, inbox, now>>

\* ------------------------------------------------------------ friend routes
\* The routes of routes/friends.js.  Each await is a suspension point, as in
\* the relay; a rejection is caught by the route's catch block, which answers
\* 500.  The routes touch none of the relay's state.
relay == <<dbUser, messages, connectedUsers, nextConn, conn, handlers, inbox,
           now, running>>

\* An invocation of a route by the authenticated user: arg is receiverId of
\* POST /request or :requestId of the accept and decline routes; res is the
\* status of the response, 0 while there is none.
Call(route, user, arg, pc, res) ==
    [route |-> route, user |-> user, arg |-> arg, pc |-> pc, res |-> res]

Respond(k, status) == [calls EXCEPT ![k].pc = "done", ![k].res = status]

At(k, route, pc) == calls[k].route = route /\ calls[k].pc = pc

\* The document FriendRequest.create({sender, receiver}) resolves to.
FriendRequestCreate(sender, receiver) ==
    [sender |-> sender, receiver |-> receiver, status |-> "pending"]

\* The filter of findOne at lines 492-497: a record between the two users, in
\* either direction and of any status.
ExistingRequest(a, b) ==
    \E i \in DOMAIN requests :
        \/ requests[i].sender = a /\ requests[i].receiver = b
        \/ requests[i].sender = b /\ requests[i].receiver = a

\* POST /request, lines 487-497 up to the await of findOne.
PostRequest(u, receiverId) ==
    /\ Len(calls) < MaxCalls
    /\ calls' = Append(calls, Call("request", u, receiverId, "findOne", 0))
    /\ UNCHANGED <<friends, requests, relay, library>>

\* The await of FriendRequest.findOne settles: 400 when a record exists.
RequestFindOne(k, ok) ==
    /\ At(k, "request", "findOne")
    /\ calls' = IF ~ok THEN Respond(k, 500)
                ELSE IF ExistingRequest(calls[k].user, calls[k].arg)
                     THEN Respond(k, 400)
                     ELSE [calls EXCEPT ![k].pc = "create"]
    /\ UNCHANGED <<friends, requests, relay, library>>

\* The await of FriendRequest.create settles.
RequestCreate(k, ok) ==
    /\ At(k, "request", "create")
    /\ IF ok
       THEN /\ requests' = Append(requests,
                                  FriendRequestCreate(calls[k].user, calls[k].arg))
            /\ calls' = Respond(k, 200)
       ELSE /\ calls' = Respond(k, 500)
            /\ UNCHANGED requests
    /\ UNCHANGED <<friends, relay, library>>

\* POST /request/:requestId/accept and .../decline up to the await of findById.
PostAnswer(route, u, requestId) ==
    /\ Len(calls) < MaxCalls
    /\ calls' = Append(calls, Call(route, u, requestId, "findById", 0))
    /\ UNCHANGED <<friends, requests, relay, library>>

\* AnswerFindById without the receiver check of lines 529 and 566.
AnswerFindByIdAnyone(k, ok) ==
    /\ calls[k].route \in {"accept", "decline"} /\ calls[k].pc = "findById"
    /\ calls' = IF ~ok THEN Respond(k, 500)
                ELSE IF calls[k].arg \notin DOMAIN requests THEN Respond(k, 404)
                ELSE [calls EXCEPT ![k].pc = IF calls[k].route = "accept"
                                             THEN "addToSender" ELSE "save"]
    /\ UNCHANGED <<friends, requests, relay, library>>

\* The await of FriendRequest.findById settles, in either route: 404 for no
\* record, 403 when the caller is not the request's receiver.
AnswerFindById(k, ok) ==
    /\ calls[k].route \in {"accept", "decline"} /\ calls[k].pc = "findById"
    /\ calls' = IF ~ok THEN Respond(k, 500)
                ELSE IF calls[k].arg \notin DOMAIN requests THEN Respond(k, 404)
                ELSE IF requests[calls[k].arg].receiver # calls[k].user
                     THEN Respond(k, 403)
                     ELSE [calls EXCEPT ![k].pc = IF calls[k].route = "accept"
                                                  THEN "addToSender" ELSE "save"]
    /\ UNCHANGED <<friends, requests, relay, library>>

\* User.updateOne({_id: owner}, {$addToSet: {friends: friend}})
AddToSet(f, owner, friend) == [f EXCEPT ![owner] = @ \cup {friend}]

\* The await of the first updateOne (lines 534-537) settles.
AcceptAddToSender(k, ok) ==
    /\ At(k, "accept", "addToSender")
    /\ IF ok
       THEN /\ friends' = AddToSet(friends, requests[calls[k].arg].sender,
                                   requests[calls[k].arg].receiver)
            /\ calls' = [calls EXCEPT ![k].pc = "addToReceiver"]
       ELSE /\ calls' = Respond(k, 500)
            /\ UNCHANGED friends
    /\ UNCHANGED <<requests, relay, library>>

\* The await of the second updateOne (lines 538-541) settles.
AcceptAddToReceiver(k, ok) ==
    /\ At(k, "accept", "addToReceiver")
    /\ IF ok
       THEN /\ friends' = AddToSet(friends, requests[calls[k].arg].receiver,
                                   requests[calls[k].arg].sender)
            /\ calls' = [calls EXCEPT ![k].pc = "save"]
       ELSE /\ calls' = Respond(k, 500)
            /\ UNCHANGED friends
    /\ UNCHANGED <<requests, relay, library>>

\* The await of request.save() settles, with the status the route has set.
AnswerSave(k, ok) ==
    /\ calls[k].route \in {"accept", "decline"} /\ calls[k].pc = "save"
    /\ IF ok
       THEN /\ requests' = [requests EXCEPT ![calls[k].arg].status =
                               IF calls[k].route = "accept" THEN "accepted"
                                                            ELSE "declined"]
            /\ calls' = Respond(k, 200)
       ELSE /\ calls' = Respond(k, 500)
            /\ UNCHANGED requests
    /\ UNCHANGED <<friends, relay, library>>

\* ------------------------------------------------------------- song routes
\* The routes of routes/song.js that write: POST /like, POST /unlike and
\* DELETE /delete/:songId.  A call's arg is the songId of its body or URL.
\* The user documents are never removed, so the "User not found" answers of
\* the routes are not reachable.
Liked(u, songId) == \E i \in DOMAIN likedSongs[u] : likedSongs[u][i] = songId

\* {$push: {likedSongs: songId}} appends, whatever the array holds.
Push(list, songId) == Append(list, songId)

\* {$pull: {likedSongs: songId}} removes every occurrence.
Pull(list, songId) == SelectSeq(list, LAMBDA x : x # songId)

\* POST /like, lines 196-204 up to the await of Song.findById; 400 for a body
\* without songId.
PostLike(u, songId) ==
    /\ Len(calls) < MaxCalls
    /\ calls' = Append(calls, IF songId = Missing
                              THEN Call("like", u, songId, "done", 400)
                              ELSE Call("like", u, songId, "findSong", 0))
    /\ UNCHANGED <<friends, requests, relay, library>>

\* The await of Song.findById (line 204) settles: 404 for no song.
LikeFindSong(k, ok) ==
    /\ At(k, "like", "findSong")
    /\ calls' = IF ~ok THEN Respond(k, 500)
                ELSE IF calls[k].arg \notin DOMAIN songs THEN Respond(k, 404)
                ELSE [calls EXCEPT ![k].pc = "findUser"]
    /\ UNCHANGED <<friends, requests, relay, library>>

\* The await of User.findById (line 210) settles; alreadyLiked is computed
\* from the document it resolved to (lines 215-216).
LikeFindUser(k, ok) ==
    /\ At(k, "like", "findUser")
    /\ calls' = IF ~ok THEN Respond(k, 500)
                ELSE IF Liked(calls[k].user, calls[k].arg) THEN Respond(k, 200)
                ELSE [calls EXCEPT ![k].pc = "push"]
    /\ UNCHANGED <<friends, requests, relay, library>>

\* The await of findByIdAndUpdate with $push (lines 219-223) settles.
LikePush(k, ok) ==
    /\ At(k, "like", "push")
    /\ IF ok
       THEN /\ likedSongs' = [likedSongs EXCEPT
                                 ![calls[k].user] = Push(@, calls[k].arg)]
            /\ calls' = Respond(k, 200)
       ELSE /\ calls' = Respond(k, 500)
            /\ UNCHANGED likedSongs
    /\ UNCHANGED <<friends, requests, relay, songs>>

\* POST /unlike, lines 242-250 up to the await of User.findById.
PostUnlike(u, songId) ==
    /\ Len(calls) < MaxCalls
    /\ calls' = Append(calls, IF songId = Missing
                              THEN Call("unlike", u, songId, "done", 400)
                              ELSE Call("unlike", u, songId, "findUser", 0))
    /\ UNCHANGED <<friends, requests, relay, library>>

\* The await of User.findById (line 250) settles.
UnlikeFindUser(k, ok) ==
    /\ At(k, "unlike", "findUser")
    /\ calls' = IF ok THEN [calls EXCEPT ![k].pc = "pull"] ELSE Respond(k, 500)
    /\ UNCHANGED <<friends, requests, relay, library>>

\* The await of findByIdAndUpdate with $pull (lines 255-259) settles.
UnlikePull(k, ok) ==
    /\ At(k, "unlike", "pull")
    /\ IF ok
       THEN /\ likedSongs' = [likedSongs EXCEPT
                                 ![calls[k].user] = Pull(@, calls[k].arg)]
            /\ calls' = Respond(k, 200)
       ELSE /\ calls' = Respond(k, 500)
            /\ UNCHANGED likedSongs
    /\ UNCHANGED <<friends, requests, relay, songs>>

\* DELETE /delete/:songId, lines 305-324 up to the await of Song.findById: the
\* route parameter and the authenticated user are always there.
DeleteSong(u, songId) ==
    /\ Len(calls) < MaxCalls
    /\ calls' = Append(calls, Call("delete", u, songId, "findSong", 0))
    /\ UNCHANGED <<friends, requests, relay, library>>

\* DeleteFindSong without the owner check of line 339.
DeleteFindSongAnyone(k, ok) ==
    /\ At(k, "delete", "findSong")
    /\ calls' = IF ~ok THEN Respond(k, 500)
                ELSE IF calls[k].arg \notin DOMAIN songs THEN Respond(k, 404)
                ELSE [calls EXCEPT ![k].pc = "delete"]
    /\ UNCHANGED <<friends, requests, relay, library>>

\* The await of Song.findById (line 324) settles: 404 for no song, 403 when
\* the caller is not the song's artist.
DeleteFindSong(k, ok) ==
    /\ At(k, "delete", "findSong")
    /\ calls' = IF ~ok THEN Respond(k, 500)
                ELSE IF calls[k].arg \notin DOMAIN songs THEN Respond(k, 404)
                ELSE IF songs[calls[k].arg] # calls[k].user THEN Respond(k, 403)
                ELSE [calls EXCEPT ![k].pc = "delete"]
    /\ UNCHANGED <<friends, requests, relay, library>>

\* The await of Song.findByIdAndDelete (line 348) settles: it resolves to null,
\* answered 500, when the document is gone already.
DeleteFindByIdAndDelete(k, ok) ==
    /\ At(k, "delete", "delete")
    /\ IF ok /\ calls[k].arg \in DOMAIN songs
       THEN /\ songs' = [s \in DOMAIN songs \ {calls[k].arg} |-> songs[s]]
            /\ calls' = [calls EXCEPT ![k].pc = "updateMany"]
       ELSE /\ calls' = Respond(k, 500)
            /\ UNCHANGED songs
    /\ UNCHANGED <<friends, requests, relay, likedSongs>>

\* The await of User.updateMany with $pull (lines 355-358) settles.
DeleteUpdateMany(k, ok) ==
    /\ At(k, "delete", "updateMany")
    /\ IF ok
       THEN /\ likedSongs' = [u \in Users |-> Pull(likedSongs[u], calls[k].arg)]
            /\ calls' = Respond(k, 200)
       ELSE /\ calls' = Respond(k, 500)
            /\ UNCHANGED likedSongs
    /\ UNCHANGED <<friends, requests, relay, songs>>

\* ---------------------------------------------------------- specifications
\* The steps every socket takes whatever its client sends.
Connection ==
    \/ \E u \in Users : Connect(u)
    \/ \E c \in Conns, ok \in BOOLEAN : ConnUpdate(c, ok)
    \/ \E c \in Conns, ok \in BOOLEAN : ConnFind(c, ok)
    \/ \E c \in Conns : Close(c)
    \/ \E c \in Conns, ok \in BOOLEAN : DiscUpdate(c, ok)
    \/ \E c \in Conns, ok \in BOOLEAN : DiscFind(c, ok)

Chat ==
    \/ \E c \in Conns, r \in Users, t \in Contents : PrivateMessage(c, r, t)
    \/ \E h \in DOMAIN handlers, ok \in BOOLEAN : PMCreate(h, ok)
    \/ \E h \in DOMAIN handlers, ok \in BOOLEAN : PMPopulate(h, ok)

Playing ==
    \/ \E c \in Conns, s \in SongIds : UpdateCurrentlyPlaying(c, s)
    \/ \E h \in DOMAIN handlers, ok \in BOOLEAN : UCPUpdate(h, ok)
    \/ \E h \in DOMAIN handlers, ok \in BOOLEAN : UCPFind(h, ok)

Events ==
    \/ \E c \in Conns, data \in TypingPayloads : Typing(c, data)
    \/ \E c \in Conns : PrivateMessageAbsent(c)
    \/ \E c \in Conns : UpdateCurrentlyPlayingAbsent(c)

\* Presence: sockets connect and close while the clock runs.
Next == Tick \/ Connection

Spec == Init /\ [][Next]_vars

\* Chat: connected clients send private messages.  The chat handlers never
\* read User.friends, so one friend graph stands for all; the clock is held,
\* the handlers only copy the timestamps they are given.
InitChat == Init /\ friends = PairGraph

NextChat == Connection \/ Chat

SpecChat == InitChat /\ [][NextChat]_vars

\* Now playing: connected clients report the song they play; the clock is
\* held as in SpecChat.
NextPlaying == Connection \/ Playing

SpecPlaying == Init /\ [][NextPlaying]_vars

\* Typing and malformed events: connected clients send typing indicators and
\* events without a payload.  None of these listeners reads User.friends or
\* the clock.
NextEvents == Connection \/ Events

SpecEvents == InitChat /\ [][NextEvents]_vars

\* Friend requests: clients call the routes of routes/friends.js; their
\* handlers interleave at every await.
InitFriends == friends = NoFriends /\ InitState

NextFriends ==
    \/ \E u \in Users, r \in Users : PostRequest(u, r)
    \/ \E k \in DOMAIN calls, ok \in BOOLEAN : RequestFindOne(k, ok)
    \/ \E k \in DOMAIN calls, ok \in BOOLEAN : RequestCreate(k, ok)
    \/ \E u \in Users, id \in RequestIds : PostAnswer("accept", u, id)
    \/ \E u \in Users, id \in RequestIds : PostAnswer("decline", u, id)
    \/ \E k \in DOMAIN calls, ok \in BOOLEAN : AnswerFindById(k, ok)
    \/ \E k \in DOMAIN calls, ok \in BOOLEAN : AcceptAddToSender(k, ok)
    \/ \E k \in DOMAIN calls, ok \in BOOLEAN : AcceptAddToReceiver(k, ok)
    \/ \E k \in DOMAIN calls, ok \in BOOLEAN : AnswerSave(k, ok)

SpecFriends == InitFriends /\ [][NextFriends]_vars

\* Songs: clients call the like, unlike and delete routes of routes/song.js;
\* their handlers interleave at every await.
NextSongs ==
    \/ \E u \in Users, s \in SongIds \cup {Missing} : PostLike(u, s)
    \/ \E k \in DOMAIN calls, ok \in BOOLEAN : LikeFindSong(k, ok)
    \/ \E k \in DOMAIN calls, ok \in BOOLEAN : LikeFindUser(k, ok)
    \/ \E k \in DOMAIN calls, ok \in BOOLEAN : LikePush(k, ok)
    \/ \E u \in Users, s \in SongIds \cup {Missing} : PostUnlike(u, s)
    \/ \E k \in DOMAIN calls, ok \in BOOLEAN : UnlikeFindUser(k, ok)
    \/ \E k \in DOMAIN calls, ok \in BOOLEAN : UnlikePull(k, ok)
    \/ \E u \in Users, s \in SongIds : DeleteSong(u, s)
    \/ \E k \in DOMAIN calls, ok \in BOOLEAN : DeleteFindSong(k, ok)
    \/ \E k \in DOMAIN calls, ok \in BOOLEAN : DeleteFindByIdAndDelete(k, ok)
    \/ \E k \in DOMAIN calls, ok \in BOOLEAN : DeleteUpdateMany(k, ok)

SpecSongs == InitFriends /\ [][NextSongs]_vars

\* ================================================================ properties
\* What the clients observe: the events of one kind about user u in a box.
EventsAbout(box, kind, u) ==
    {i \in DOMAIN box : box[i].ev = kind /\ box[i].userId = u}

\* The events of kind `kind` about u that this step delivers to socket d.
Delivered(d, kind, u) ==
    IF inbox'[d] = inbox[d] THEN 0
    ELSE Cardinality(EventsAbout(inbox'[d], kind, u))
             - Cardinality(EventsAbout(inbox[d], kind, u))

\* User f has a live connection on socket d: d is f's registered socket and is open.
LiveOn(f, d) == <<f, d>> \in connectedUsers /\ conn[d].open

\* The connect flow of socket c reaches its friendOnline loop in this step.
ConnFanOut(c) == conn[c].cpc = "find" /\ conn'[c].cpc = "on"

\* The disconnect flow of socket c reaches its friendOffline loop in this step.
DiscFanOut(c) == conn[c].dpc = "find" /\ conn'[c].dpc = "done"

\* C1: a run of the connect flow for user u delivers exactly one
\* friendOnline{userId: u} to the socket of each friend of u that has a live
\* connection when the loop runs, and no friendOnline about u to any other
\* socket (friends without a live connection, non-friends); no other step
\* delivers a friendOnline.
C1_ConnectFanOut ==
    [][\A u \in Users, d \in Conns :
         Delivered(d, "friendOnline", u) =
             IF \E c \in Conns : /\ ConnFanOut(c)
                                 /\ conn[c].user = u
                                 /\ \E f \in friends[u] : LiveOn(f, d)
             THEN 1 ELSE 0]_vars

\* C1 witness: user u has connected, a connected friend holds friendOnline{u}
\* and another friend of u has no registered connection.
C1_Witness ==
    \E c \in Conns, d \in Conns :
        /\ conn[c].cpc = "on" /\ d # c /\ conn[d].open
        /\ conn[d].user \in friends[conn[c].user]
        /\ EventsAbout(inbox[d], "friendOnline", conn[c].user) # {}
        /\ \E f \in friends[conn[c].user] : ~MapHas(connectedUsers, f)

AtMostOneHandle ==
    \A u \in Users : Cardinality({p \in connectedUsers : p[1] = u}) <= 1

\* A connection step for user u leaves the new socket as u's only entry.
RegisterSupersedes ==
    \A u \in Users :
        (nextConn' = nextConn + 1 /\ conn'[nextConn'].user = u)
            => /\ MapGet(connectedUsers', u) = nextConn'
               /\ {p \in connectedUsers' : p[1] = u} = {<<u, nextConn'>>}

\* C7: the registry maps every user to at most one socket, and registering a
\* socket for a user that already has one makes lookup return the new socket
\* and leaves the old one unreachable.
C7_LastWriteWins == []AtMostOneHandle /\ [][RegisterSupersedes]_vars

\* C7 witness: the same user registered socket 1 and then socket 2 while
\* socket 1 was still open; lookup returns socket 2.
C7_Witness ==
    /\ nextConn = 2 /\ conn[1].user = conn[2].user /\ conn[1].open
    /\ MapGet(connectedUsers, conn[2].user) = 2

\* C8: once a socket that the connect flow registered has closed and its
\* connect and disconnect handlers have finished, the registry holds no entry
\* whose handle is that socket.  (Stated for sockets whose connect flow ran to
\* its end.)
C8_EntryDestroyedOnClose ==
    \A c \in Conns :
        (/\ conn[c].cpc = "on"
         /\ ~conn[c].open
         /\ conn[c].dpc \in {"none", "done", "failed"})
            => \A p \in connectedUsers : p[2] # c

\* ------------------------------------------------------------ chat claims
\* The positions of the events of one kind that carry message id in a box.
EventsOf(box, kind, id) ==
    {i \in DOMAIN box : box[i].ev = kind /\ box[i].message.id = id}

\* The events of kind `kind` with message id that this step delivers to socket d.
DeliveredMsg(d, kind, id) ==
    IF inbox'[d] = inbox[d] THEN 0
    ELSE Cardinality(EventsOf(inbox'[d], kind, id))
             - Cardinality(EventsOf(inbox[d], kind, id))

\* The messageError events this step delivers to socket d.
DeliveredError(d) ==
    IF inbox'[d] = inbox[d] THEN 0
    ELSE Cardinality({i \in DOMAIN inbox'[d] : inbox'[d][i].ev = "messageError"})
             - Cardinality({i \in DOMAIN inbox[d] : inbox[d][i].ev = "messageError"})

\* The persisted records of the send handled by invocation h.
RecordsOf(h) == {i \in DOMAIN messages : messages[i].id = h}

InFlightPM(h) == h \in DOMAIN handlers /\ handlers[h].kind = "pm"

\* Invocation h ends in this step past line 84: create and populate resolved.
PMDelivery(h) ==
    InFlightPM(h) /\ handlers[h].pc = "populate" /\ handlers'[h].pc = "done"

\* The await of create in invocation h rejects in this step.
PMCreateFails(h) ==
    InFlightPM(h) /\ handlers[h].pc = "create" /\ handlers'[h].pc = "caught"

\* The await of create in invocation h resolves in this step.
PMPersists(h) ==
    InFlightPM(h) /\ handlers[h].pc = "create" /\ handlers'[h].pc = "populate"

\* The last event of socket d after the step, with the fields the claim compares.
LastFields(d) ==
    LET m == inbox'[d][Len(inbox'[d])].message
    IN <<m.content, m.sender, m.createdAt>>

\* C3: when A's privateMessage to B completes while B has a live connection
\* (create and populate resolved), B's socket receives exactly one newMessage,
\* no other socket receives a newMessage, A's socket (if still open) receives
\* exactly one messageSent and no messageError, and the two events carry the
\* same content, sender and timestamp: those of the persisted record.
C3_MessageToConnected ==
    [][\A h \in 1..MaxEvents :
         (PMDelivery(h) /\ \E d \in Conns : LiveOn(handlers[h].rcv, d)) =>
             LET a == handlers[h].conn
                 b == MapGet(connectedUsers, handlers[h].rcv)
                 m == messages[CHOOSE i \in RecordsOf(h) : TRUE]
                 stored == <<handlers[h].content, conn[a].user, m.createdAt>>
             IN /\ Cardinality(RecordsOf(h)) = 1
                /\ \A d \in Conns :
                       DeliveredMsg(d, "newMessage", h) = IF d = b THEN 1 ELSE 0
                /\ \A d \in Conns :
                       DeliveredMsg(d, "messageSent", h)
                           = IF d = a /\ conn[a].open THEN 1 ELSE 0
                /\ \A d \in Conns : DeliveredError(d) = 0
                /\ a # b => LastFields(b) = stored
                /\ conn[a].open => LastFields(a) = stored
                /\ (a = b) =>
                       inbox'[a][Len(inbox'[a]) - 1].message = inbox'[a][Len(inbox'[a])].message]_vars

\* C3 witness: B's open registered socket holds a newMessage and A's socket
\* the messageSent of the same record.
C3_Witness ==
    \E a \in Conns, b \in Conns, h \in 1..MaxEvents :
        /\ a # b /\ LiveOn(conn[b].user, b)
        /\ EventsOf(inbox[b], "newMessage", h) # {}
        /\ EventsOf(inbox[a], "messageSent", h) # {}

\* C4: when A's privateMessage to B completes while B has no live connection
\* (in particular no registered connection), the record is persisted, A's
\* socket (if still open) receives messageSent, and no other socket receives
\* any event.
C4_MessageToOffline ==
    [][\A h \in 1..MaxEvents :
         (PMDelivery(h) /\ ~\E d \in Conns : LiveOn(handlers[h].rcv, d)) =>
             LET a == handlers[h].conn
             IN /\ \E i \in DOMAIN messages :
                       /\ messages[i].id = h
                       /\ messages[i].sender = conn[a].user
                       /\ messages[i].receiver = handlers[h].rcv
                       /\ messages[i].content = handlers[h].content
                /\ conn[a].open =>
                       /\ Len(inbox'[a]) = Len(inbox[a]) + 1
                       /\ DeliveredMsg(a, "messageSent", h) = 1
                /\ \A d \in Conns : (d # a \/ ~conn[a].open) => inbox'[d] = inbox[d]]_vars

\* C4 witness: a message to a user with no registered connection is
\* persisted and acknowledged to its sender.
C4_Witness ==
    \E a \in Conns, i \in DOMAIN messages :
        /\ ~MapHas(connectedUsers, messages[i].receiver)
        /\ \A d \in Conns : conn[d].user # messages[i].receiver
        /\ EventsOf(inbox[a], "messageSent", messages[i].id) # {}

\* No event carries a message of which no record exists.
NoRecordNoDelivery ==
    \A d \in Conns : \A i \in DOMAIN inbox[d] :
        inbox[d][i].ev \in {"newMessage", "messageSent"}
            => RecordsOf(inbox[d][i].message.id) # {}

\* C5: when ChatMessage.create rejects, the sender's socket (if open) receives
\* messageError and nothing else, no other socket receives anything, and no
\* record of the send exists; a send without a record is never delivered or
\* acknowledged.
C5_PersistenceFailure ==
    /\ []NoRecordNoDelivery
    /\ [][\A h \in 1..MaxEvents :
            PMCreateFails(h) =>
                LET a == handlers[h].conn
                IN /\ \A i \in DOMAIN messages' : messages'[i].id # h
                   /\ messages' = messages
                   /\ conn[a].open =>
                          /\ Len(inbox'[a]) = Len(inbox[a]) + 1
                          /\ DeliveredError(a) = 1
                   /\ \A d \in Conns : (d # a \/ ~conn[a].open) => inbox'[d] = inbox[d]]_vars

\* C5 witness: a send failed at create: its sender holds a messageError, the
\* receiver is connected and holds nothing, and no record exists.
C5_Witness ==
    \E a \in Conns, b \in Conns :
        /\ a # b /\ LiveOn(conn[b].user, b) /\ conn[a].cpc = "on"
        /\ \E i \in DOMAIN inbox[a] : inbox[a][i].ev = "messageError"
        /\ inbox[b] = <<>>
        /\ messages = <<>>
        /\ Len(handlers) = 1 /\ handlers[1].pc = "caught"

\* C6: of two privateMessage invocations h1 before h2 on one socket to the
\* same receiver, h1's record is persisted before h2's and h1 delivers before
\* h2 delivers, whatever the order in which their awaits settle.
C6_PerPairOrder ==
    [][\A h1 \in 1..MaxEvents, h2 \in 1..MaxEvents :
         (/\ h1 < h2 /\ InFlightPM(h1) /\ InFlightPM(h2)
          /\ handlers[h1].conn = handlers[h2].conn
          /\ handlers[h1].rcv = handlers[h2].rcv)
            => /\ PMPersists(h2) => handlers[h1].pc # "create"
               /\ ~PMDelivery(h2)]_vars

\* C9: whenever an invocation whose record is persisted returns, its sender's
\* socket (if open) has received messageSent for the record and no
\* messageError, whatever the outcome of populate.
C9_AckAfterPersist ==
    [][\A h \in 1..MaxEvents :
         (InFlightPM(h) /\ handlers[h].pc = "populate" /\ handlers'[h].kind = "done"
          /\ conn[handlers[h].conn].open)
            => /\ DeliveredMsg(handlers[h].conn, "messageSent", h) = 1
               /\ DeliveredError(handlers[h].conn) = 0]_vars

\* ----------------------------------------------------- now-playing claims
\* The friendCurrentlyPlaying{userId: u, songId: s} events this step delivers to d.
DeliveredPlaying(d, u, s) ==
    IF inbox'[d] = inbox[d] THEN 0 ELSE
    Cardinality({i \in DOMAIN inbox'[d] :
                    /\ inbox'[d][i].ev = "friendCurrentlyPlaying"
                    /\ inbox'[d][i].userId = u /\ inbox'[d][i].songId = s})
    - Cardinality({i \in DOMAIN inbox[d] :
                    /\ inbox[d][i].ev = "friendCurrentlyPlaying"
                    /\ inbox[d][i].userId = u /\ inbox[d][i].songId = s})

InFlightUCP(h) == h \in DOMAIN handlers /\ handlers[h].kind = "ucp"

\* The currentlyPlaying write of invocation h resolves in this step.
UCPPersists(h) ==
    InFlightUCP(h) /\ handlers[h].pc = "update" /\ handlers'[h].pc = "find"

\* Invocation h runs its friendCurrentlyPlaying loop in this step.
UCPFanOut(h) ==
    InFlightUCP(h) /\ handlers[h].pc = "find" /\ handlers'[h].pc = "done"

\* C10: when the write of updateCurrentlyPlaying{songId} from user u
\* resolves, u's persisted currentlyPlaying.song is songId, whether or not a
\* Song with that id exists; the handler's loop delivers exactly one
\* friendCurrentlyPlaying{userId: u, songId} to the socket of each friend of u
\* with a live connection and none to any other socket, and no other step
\* delivers one.
C10_NowPlayingFanOut ==
    [][/\ \A h \in 1..MaxEvents :
            UCPPersists(h) =>
                dbUser'[conn[handlers[h].conn].user].song = handlers[h].song
       /\ \A u \in Users, d \in Conns, s \in SongIds :
            DeliveredPlaying(d, u, s) =
                IF \E h \in 1..MaxEvents :
                       /\ UCPFanOut(h)
                       /\ conn[handlers[h].conn].user = u
                       /\ handlers[h].song = s
                       /\ \E f \in friends[u] : LiveOn(f, d)
                THEN 1 ELSE 0]_vars

\* C10 witness: a user's persisted song is an id of no Song document, a
\* connected friend holds the friendCurrentlyPlaying for it and another
\* friend of the user has no registered connection.
C10_Witness ==
    \E c \in Conns, d \in Conns :
        /\ conn[c].cpc = "on" /\ d # c /\ conn[d].open
        /\ conn[d].user \in friends[conn[c].user]
        /\ dbUser[conn[c].user].song \notin ExistingSongs \cup {NoSong}
        /\ \E i \in DOMAIN inbox[d] :
               /\ inbox[d][i].ev = "friendCurrentlyPlaying"
               /\ inbox[d][i].userId = conn[c].user
               /\ inbox[d][i].songId = dbUser[conn[c].user].song
        /\ \E f \in friends[conn[c].user] : ~MapHas(connectedUsers, f)

\* ------------------------------------------------- failure-policy claims
\* C11: when the write of the online flag (connect flow) or of the offline
\* flag (disconnect flow) settles, resolved or rejected, the flow goes on to
\* fetch the friend list: a rejected write blocks neither the fan-out nor, on
\* connect, the installation of the socket's listeners.
C11_PresenceFailurePolicy ==
    [][\A c \in Conns :
         /\ (conn[c].cpc = "update" /\ conn'[c].cpc # "update")
                => conn'[c].cpc = "find"
         /\ (conn[c].dpc = "update" /\ conn'[c].dpc # "update")
                => conn'[c].dpc = "find"]_vars

\* C12: when the write of currentlyPlaying settles, resolved or rejected, the
\* handler goes on to the friendCurrentlyPlaying fan-out with the songId it
\* received in the event.
C12_NowPlayingFailurePolicy ==
    [][\A h \in 1..MaxEvents :
         (InFlightUCP(h) /\ handlers[h].pc = "update" /\ handlers'[h] # handlers[h])
            => /\ handlers'[h].kind = "ucp" /\ handlers'[h].pc = "find"
               /\ handlers'[h].song = handlers[h].song]_vars

\* ------------------------------------------- typing and malformed payloads
\* The record of the listener invocation that starts in this step, if any.
Started(h) == Len(handlers') = Len(handlers) + 1 /\ handlers'[Len(handlers')] = h

\* A listener of socket c handles, in this step, an event whose payload is
\* absent or lacks its required field.
MalformedStep(c) ==
    /\ Len(handlers') = Len(handlers) + 1
    /\ handlers'[Len(handlers')].conn = c
    /\ \/ handlers'[Len(handlers')].rcv = Missing
       \/ handlers'[Len(handlers')].song = Missing

\* C13: an event whose payload is absent or lacks its required field delivers
\* exactly one error event to the socket it came from and nothing to any other
\* socket, and the relay keeps running: every other socket stays as it was.
C13_MalformedPayload ==
    [][\A c \in Conns :
         MalformedStep(c) =>
             /\ Len(inbox'[c]) = Len(inbox[c]) + 1
             /\ DeliveredError(c) = 1
             /\ \A d \in Conns \ {c} : inbox'[d] = inbox[d]
             /\ running'
             /\ \A d \in Conns \ {c} : conn'[d] = conn[d]]_vars

\* A handler of socket c fails in this step: a flow's await rejects, a
\* listener's catch block runs, or a listener throws.
FailureOf(c) ==
    \/ conn[c].cpc # "failed" /\ conn'[c].cpc = "failed"
    \/ conn[c].dpc # "failed" /\ conn'[c].dpc = "failed"
    \/ \E h \in DOMAIN handlers :
           /\ handlers[h].conn = c /\ handlers[h].pc \notin {"caught", "thrown"}
           /\ handlers'[h].pc = "caught"
    \/ /\ Len(handlers') = Len(handlers) + 1
       /\ handlers'[Len(handlers')].conn = c
       /\ handlers'[Len(handlers')].pc \in {"caught", "thrown"}

\* C14: a failure in a handler of one socket changes no registry entry of
\* another socket, delivers no error event to another socket and leaves every
\* other socket open with its flows where they were, so that their handlers
\* can still complete.
C14_ErrorIsolation ==
    [][\A c \in Conns :
         FailureOf(c) =>
             /\ \A p \in connectedUsers : p[2] # c => p \in connectedUsers'
             /\ \A d \in Conns \ {c} : DeliveredError(d) = 0
             /\ \A d \in Conns \ {c} : conn'[d] = conn[d]]_vars

\* C15: a typing{receiverId: r} event on a socket of user s appends
\* userTyping{userId: s} to the socket on which r has a live connection and
\* to no other socket (so nothing at all when r is not connected, and no
\* acknowledgment to s); it persists nothing, leaves the registry unchanged
\* and raises no error.  No other step delivers a userTyping.
C15_TypingRelay ==
    [][/\ \A c \in Conns, r \in Users :
            Started(Handler("typing", c, "done", r, "none", NoSong, 0)) =>
                /\ \A d \in Conns :
                       inbox'[d] = IF LiveOn(r, d)
                                   THEN Append(inbox[d], UserTyping(conn[c].user))
                                   ELSE inbox[d]
                /\ messages' = messages /\ dbUser' = dbUser
                /\ connectedUsers' = connectedUsers
                /\ running'
       /\ \A d \in Conns, u \in Users :
            Delivered(d, "userTyping", u) > 0 =>
                \E c \in Conns, r \in Users :
                    /\ conn[c].user = u
                    /\ Started(Handler("typing", c, "done", r, "none", NoSong, 0))]_vars

\* C15 witness: one typing event reached its receiver's live socket and
\* another, to a user without a registered connection, reached nobody.
C15_Witness ==
    /\ Len(handlers) = 2
    /\ handlers[1].kind = "typing" /\ handlers[2].kind = "typing"
    /\ handlers[1].conn = handlers[2].conn
    /\ handlers[2].rcv \in Users /\ ~MapHas(connectedUsers, handlers[2].rcv)
    /\ \E d \in Conns :
           /\ LiveOn(handlers[1].rcv, d) /\ d # handlers[1].conn
           /\ inbox[d] = <<UserTyping(conn[handlers[1].conn].user)>>
    /\ inbox[handlers[1].conn] = <<>>

\* ----------------------------------------------------- unregister claims
\* The disconnect listener of socket c runs its line 132 in this step.
Unregisters(c) == conn[c].dpc = "none" /\ conn'[c].dpc = "update"

\* C16: when the disconnect listener runs for a user that has no registry
\* entry, the registry is unchanged and the listener goes on (no error); and
\* after any run of the listener, deleting the user's key once more leaves
\* the registry as it is.
C16_UnregisterIdempotent ==
    [][\A c \in Conns :
         Unregisters(c) =>
             /\ ~MapHas(connectedUsers, conn[c].user)
                    => connectedUsers' = connectedUsers /\ running'
             /\ ~MapHas(connectedUsers', conn[c].user)
             /\ MapDelete(connectedUsers', conn[c].user) = connectedUsers']_vars

\* C16 witness: two sockets of one user have both run their disconnect
\* listener; the second found no entry for the user.
C16_Witness ==
    /\ nextConn = 2 /\ conn[1].user = conn[2].user
    /\ conn[1].dpc # "none" /\ conn[2].dpc # "none"
    /\ connectedUsers = {}

\* ------------------------------------------------------ friend-route claims
\* C17: whenever no call of the accept route is in progress, the friends
\* lists are symmetric: a is in b's list exactly when b is in a's list.
C17_FriendSymmetry ==
    (\A k \in DOMAIN calls : calls[k].route = "accept" => calls[k].pc = "done")
        => \A a \in Users, b \in Users : (a \in friends[b]) <=> (b \in friends[a])

\* C18: at most one FriendRequest record exists between any two users, in
\* whichever direction it was sent: a POST /request for a pair that has a
\* record creates nothing, however the calls interleave.
C18_NoDuplicateRequests ==
    \A i \in DOMAIN requests, j \in DOMAIN requests :
        i # j => {requests[i].sender, requests[i].receiver}
                     # {requests[j].sender, requests[j].receiver}

\* C19: no FriendRequest has its sender as receiver, and no user is in their
\* own friends list.
C19_NoSelfRequest ==
    /\ \A i \in DOMAIN requests : requests[i].sender # requests[i].receiver
    /\ \A u \in Users : u \notin friends[u]

\* -------------------------------------------------------- offline messages
\* C20: a newMessage for a record is delivered only by the step in which the
\* record's own privateMessage invocation completes; no step of a connect
\* flow (nor any other step) pushes a stored message to a socket.
C20_NoOfflineMailbox ==
    [][\A d \in Conns, h \in 1..MaxEvents :
         DeliveredMsg(d, "newMessage", h) > 0 => PMDelivery(h)]_vars

\* C20 witness: a record addressed to user r was persisted and acknowledged
\* to its sender while r had no connection; r has since connected, the
\* connect flow is complete, and r's socket has received nothing.
C20_Witness ==
    \E a \in Conns, d \in Conns, i \in DOMAIN messages :
        /\ a # d /\ conn[a].user # messages[i].receiver
        /\ EventsOf(inbox[a], "messageSent", messages[i].id) # {}
        /\ conn[d].user = messages[i].receiver
        /\ LiveOn(messages[i].receiver, d) /\ conn[d].cpc = "on"
        /\ inbox[d] = <<>>

\* ------------------------------------------------------- ordering and time
\* C21: of two updateCurrentlyPlaying invocations h1 before h2 on one socket,
\* h1's write does not land after h2's write (so the song persisted in the
\* end is h2's) and h2 does not fan out while h1 has still to fan out,
\* whatever the order in which their awaits settle.
C21_NowPlayingOrder ==
    [][\A h1 \in 1..MaxEvents, h2 \in 1..MaxEvents :
         (/\ h1 < h2 /\ InFlightUCP(h1) /\ InFlightUCP(h2)
          /\ handlers[h1].conn = handlers[h2].conn
          /\ handlers[h1].song # handlers[h2].song)
            => /\ ~(UCPPersists(h1) /\ handlers[h2].pc = "find")
               /\ ~UCPFanOut(h2)]_vars

\* C22: every friendOffline a disconnect flow delivers carries the lastSeen
\* the flow has persisted for the user (and so all of them the same value).
C22_LastSeenAgrees ==
    [][\A c \in Conns, d \in Conns :
         (DiscFanOut(c) /\ inbox'[d] # inbox[d])
            => inbox'[d][Len(inbox'[d])].lastSeen = conn[c].discTime]_vars

\* ------------------------------------------- registry against connections
\* The socket of user u that registered last.
LatestOf(u) == CHOOSE c \in 1..nextConn :
                   /\ conn[c].user = u
                   /\ \A d \in 1..nextConn : conn[d].user = u => d <= c

\* C27: while the socket a user registered last is open, lookup of the user
\* returns it: the disconnect of an older socket of the user leaves the entry.
C27_LatestStaysReachable ==
    \A u \in Users :
        ((\E c \in 1..nextConn : conn[c].user = u) /\ conn[LatestOf(u)].open)
            => MapGet(connectedUsers, u) = LatestOf(u)

\* Every flow that has started has run to its end: nothing is suspended on a
\* persistence call and no flow stopped at a rejected call.
Quiescent ==
    \A c \in Conns : conn[c].cpc \in {"idle", "on"} /\ conn[c].dpc \in {"none", "done"}

\* C28: in every quiescent state a user's persisted isOnline is true exactly
\* when the registry holds an entry for the user.
C28_PresenceAgreesWithRegistry ==
    Quiescent => \A u \in Users : dbUser[u].isOnline <=> MapHas(connectedUsers, u)

\* ------------------------------------------------ answering friend requests
\* The request id of call k names no record.
UnknownRequest(k) == calls[k].arg \notin DOMAIN requests

\* Call k is made by a user who is not the receiver of the request it names.
NotReceiver(k) ==
    ~UnknownRequest(k) /\ requests[calls[k].arg].receiver # calls[k].user

\* C26: an accept or decline by a user other than the request's receiver is
\* answered 403, one of an unknown request id 404 (500 when the lookup itself
\* fails); such a call changes neither a request nor a friends list, and 403
\* and 404 are given for no other reason.
C26_OnlyReceiverAnswers ==
    [][\A k \in DOMAIN calls :
         (calls[k].route \in {"accept", "decline"} /\ calls'[k] # calls[k])
            => /\ calls'[k].res = 403 => NotReceiver(k)
               /\ calls'[k].res = 404 => UnknownRequest(k)
               /\ NotReceiver(k)
                    => /\ calls'[k].pc = "done" /\ calls'[k].res \in {403, 500}
                       /\ friends' = friends /\ requests' = requests
               /\ UnknownRequest(k)
                    => /\ calls'[k].pc = "done" /\ calls'[k].res \in {404, 500}
                       /\ friends' = friends /\ requests' = requests]_vars

\* A refused answer of each kind has been given, and the request left pending.
C26_Witness ==
    /\ \E k \in DOMAIN calls : calls[k].route = "accept" /\ calls[k].res = 403
                               /\ requests[calls[k].arg].status = "pending"
    /\ \E k \in DOMAIN calls : calls[k].route = "decline" /\ calls[k].res = 404
    /\ friends = NoFriends

\* C29: a friends list changes only in a step of an accept call, and when the
\* request is one between two different users it is pending in that step:
\* accepting a declined or accepted request adds no friend.
C29_OnlyPendingBecomesFriendship ==
    [][friends' # friends
         => \E k \in DOMAIN calls :
                /\ calls'[k] # calls[k] /\ calls[k].route = "accept"
                /\ requests[calls[k].arg].sender # requests[calls[k].arg].receiver
                      => requests[calls[k].arg].status = "pending"]_vars

\* ------------------------------------------------------- likes and deletion
\* How often songId occurs in a list of liked songs.
Occurrences(list, songId) == Cardinality({i \in DOMAIN list : list[i] = songId})

\* C23: a user's likedSongs holds every song id at most once, whatever like
\* and unlike calls have run and however they interleaved.
C23_NoDuplicateLikes ==
    \A u \in Users, s \in SongIds : Occurrences(likedSongs[u], s) <= 1

\* Every call has been answered.
AllAnswered == \A k \in DOMAIN calls : calls[k].pc = "done"

\* C24: once a delete call has been answered 200 and no call is running, no
\* user's likedSongs holds the id of the deleted song.
C24_DeleteCascades ==
    \A k \in DOMAIN calls :
        (calls[k].route = "delete" /\ calls[k].res = 200 /\ AllAnswered)
            => \A u \in Users : ~Liked(u, calls[k].arg)

\* Call k of the delete route is at its lookup and names no song.
UnknownSong(k) == calls[k].arg \notin DOMAIN songs

\* Call k of the delete route names a song of another artist.
NotArtist(k) == ~UnknownSong(k) /\ songs[calls[k].arg] # calls[k].user

\* C25: a delete call by a user who is not the song's artist is answered 403
\* and one for a song that does not exist 404 (500 when the lookup itself
\* fails), both leaving the songs and every likedSongs as they are; 403 and
\* 404 are given for no other reason, and a song leaves the collection only
\* in a step of a delete call made by its artist.
C25_OwnerOnlyDeletion ==
    [][/\ \A k \in DOMAIN calls :
            (At(k, "delete", "findSong") /\ calls'[k] # calls[k])
               => /\ calls'[k].res = 403 => NotArtist(k)
                  /\ calls'[k].res = 404 => UnknownSong(k)
                  /\ NotArtist(k)
                       => /\ calls'[k].pc = "done" /\ calls'[k].res \in {403, 500}
                          /\ songs' = songs /\ likedSongs' = likedSongs
                  /\ UnknownSong(k)
                       => /\ calls'[k].pc = "done" /\ calls'[k].res \in {404, 500}
                          /\ songs' = songs /\ likedSongs' = likedSongs
       /\ \A s \in DOMAIN songs :
            s \notin DOMAIN songs'
               => \E k \in DOMAIN calls :
                      /\ calls'[k] # calls[k] /\ calls[k].route = "delete"
                      /\ calls[k].arg = s /\ calls[k].user = songs[s]]_vars

\* Both refusals have been given, the song still there and still liked.
C25_Witness ==
    /\ \E k \in DOMAIN calls : calls[k].route = "delete" /\ calls[k].res = 403
    /\ \E k \in DOMAIN calls : calls[k].route = "delete" /\ calls[k].res = 404
    /\ DOMAIN songs = ExistingSongs
    /\ \E u \in Users : Liked(u, "s1")
====
